---------------------------- MODULE Spec2Model ----------------------------
(***************************************************************************)
(* State-machine model of kottaslau: the greedy probabilistic assignment   *)
(* heuristic for stochastic assembly-line balancing                        *)
(* (src/kottaslau/models/Instance.py, Task.py, Station.py).                *)
(*                                                                         *)
(* Numbers.  Times (m, s, T) and costs (out_line_cost, c) are integers.    *)
(* The floats the code derives from them are kept in fixed point:          *)
(*   - a z value is an integer number of thousandths (ZScale),             *)
(*   - a probability is an integer number of millionths (PScale),          *)
(*   - an expected cost and total_unit_cost are cost units times PScale.   *)
(* Float rounding is not modelled.  NaN and the two infinities that        *)
(* norm.ppf returns are separate values (NaN, PosInf, NegInf), and an      *)
(* exception leaves the run in pc = "raised".                              *)
(***************************************************************************)
EXTENDS Integers, Sequences, FiniteSets

(***************************************************************************)
(* Bounds of the model and the sets the instances are drawn from.          *)
(***************************************************************************)
MaxEdges == 3

\* calls made again on an Instance: of fill_task_properties, of execute_algorithm
MaxRefills == 1

MaxAgain == 1

\* the precedence pairs of the graphs searched frame by frame, and the depth of
\* recursion that is followed
DfsMaxEdges == 4

MaxDepth == 6

IdSeq == <<"A", "B", "C">>

MValues == {1, 2}

SValues == {0, 1}

CostValues == {0, 5}

TValues == {1, 4, 5}

CValues == {1, 5}

(***************************************************************************)
(* Fixed-point floats.                                                     *)
(***************************************************************************)
ZScale == 10^3

PScale == 10^6

PosInf == 10^9

NegInf == 0 - 10^9

NaN == 0 - (2 * 10^9)

None == 0 - (2 * 10^9) - 1

\* a > b on floats: every comparison with NaN is false
FloatGt(a, b) == a # NaN /\ b # NaN /\ a > b

Abs(x) == IF x < 0 THEN 0 - x ELSE x

Min(a, b) == IF a < b THEN a ELSE b

RECURSIVE ISqrtIn(_, _, _)
\* the largest r in lo..hi with r*r <= x, by bisection (lo*lo <= x)
ISqrtIn(x, lo, hi) ==
    IF lo >= hi THEN lo
    ELSE LET mid == (lo + hi + 1) \div 2
         IN  IF mid * mid <= x THEN ISqrtIn(x, mid, hi)
             ELSE ISqrtIn(x, lo, mid - 1)

\* math.sqrt on a non-negative integer, truncated (46340 * 46340 < 2^31)
ISqrt(x) == ISqrtIn(x, 0, Min(x, 46340))

\* d / sqrt(s) in thousandths, truncated toward zero (s > 0)
ZOf(d, s) ==
    LET q == ISqrt((ZScale * ZScale * d * d) \div s)
    IN  IF d >= 0 THEN q ELSE 0 - q

\* the standard normal distribution function at 0.0, 0.1, ..., 5.0, in millionths
PhiTable ==
    << 500000, 539827, 579259, 617911, 655421, 691462, 725746, 758036, 788144,
       815939, 841344, 864333, 884930, 903199, 919243, 933192, 945200, 955434,
       964069, 971283, 977249, 982135, 986096, 989275, 991802, 993790, 995338,
       996533, 997444, 998134, 998650, 999032, 999312, 999516, 999663, 999767,
       999840, 999892, 999927, 999951, 999968, 999979, 999986, 999991, 999994,
       999996, 999997, 999998, 999999, 999999, 999999 >>

\* scipy.stats.norm.cdf on a finite z (thousandths), read off the table at the
\* tenth below |z|, with cdf(-z) = 1 - cdf(z)
NormCdf(z) ==
    LET k == Min(Abs(z) \div (ZScale \div 10), Len(PhiTable) - 1)
        p == PhiTable[k + 1]
    IN  IF z >= 0 THEN p ELSE PScale - p

\* scipy.stats.norm.ppf on a probability p (millionths): NaN outside [0, 1],
\* the infinities at 0 and 1, otherwise the inverse of the table
NormPpf(p) ==
    IF p < 0 \/ p > PScale THEN NaN
    ELSE IF p = 0 THEN NegInf
    ELSE IF p = PScale THEN PosInf
    ELSE LET up == IF p >= PScale \div 2 THEN p ELSE PScale - p
             k  == CHOOSE i \in 0..(Len(PhiTable) - 1) :
                      /\ PhiTable[i + 1] <= up
                      /\ \A j \in 0..(Len(PhiTable) - 1) :
                            PhiTable[j + 1] <= up => j <= i
             z  == k * (ZScale \div 10)
         IN  IF p >= PScale \div 2 THEN z ELSE 0 - z

(***************************************************************************)
(* The program's state.                                                    *)
(*   task_list      Instance.task_list: task id -> Task record             *)
(*   T, c           Instance.T (= 1/q) and Instance.c                      *)
(*   station_list   Instance.station_list: the stations in the order they  *)
(*                  were opened (station k has id str(k)); a station is    *)
(*                  its out_line_cost dict, a sequence of <<task, cost>>   *)
(*                  in insertion order                                     *)
(*   total_unit_cost Instance.total_unit_cost                              *)
(*   n_station, pot_tasks, selected_task   locals of execute_algorithm     *)
(*   pc             position of the run                                    *)
(* and, for the comparison of two runs on the same input:                  *)
(*   twin           a second Instance built from the same input and run    *)
(*                  beside the first: its task_list, station_list,         *)
(*                  total_unit_cost, n_station and position                *)
(*   same_orders    whether, so far, both runs enumerated the available    *)
(*                  tasks in the same order at every station-loop pass     *)
(* for the counting of the work of a run:                                  *)
(*   n_iter         the iterations of the station loop (while True) begun  *)
(*                  by the current call of execute_algorithm               *)
(* for calls made again on the same Instance:                              *)
(*   n_again        the calls of execute_algorithm after the first         *)
(*   n_refill       the calls of fill_task_properties after __init__       *)
(*   returned       station_list and total_unit_cost as the previous call  *)
(*                  of execute_algorithm left them                         *)
(* and for one call of deep_first_search followed frame by frame:          *)
(*   dfs_start      the task the search was called on                      *)
(*   dfs_stack      the frames of the recursion, outermost first: the      *)
(*                  task of the frame and the tasks its for loop has yet   *)
(*                  to yield                                               *)
(*   dfs_visited    the shared set visited_tasks_id                        *)
(***************************************************************************)
VARIABLES task_list, T, c, station_list, total_unit_cost,
          n_station, pot_tasks, selected_task, pc, twin, same_orders,
          n_iter, n_again, n_refill, returned, dfs_start, dfs_stack, dfs_visited

vars == <<task_list, T, c, station_list, total_unit_cost,
          n_station, pot_tasks, selected_task, pc, twin, same_orders,
          n_iter, n_again, n_refill, returned, dfs_start, dfs_stack, dfs_visited>>

other_vars == <<n_again, n_refill, returned, dfs_start, dfs_stack, dfs_visited>>

run_vars == <<task_list, T, c, station_list, total_unit_cost,
              n_station, pot_tasks, selected_task, pc>>

Ids == {IdSeq[i] : i \in 1..Len(IdSeq)}

\* the keys of a task_list of n tasks, and their dict (insertion) order
KeysOf(n) == {IdSeq[i] : i \in 1..n}

KeySeq(tl) == SubSeq(IdSeq, 1, Cardinality(DOMAIN tl))

\* Task.__init__
Task(task_id, m, s, out_line_cost, predecessor_set) ==
    [task_id |-> task_id, m |-> m, s |-> s,
     predecessor_set |-> predecessor_set, out_line_cost |-> out_line_cost,
     out_completion_cost |-> None, in_line_cost |-> None,
     z_limit |-> None, n_successors |-> None]

\* Station.__init__: an empty out_line_cost dict
Station == <<>>

\* dict.keys() of a station's out_line_cost, as a set
StationKeys(station) == {station[i][1] : i \in 1..Len(station)}

\* d = {k: v}: the dict replaced by a new one that holds only the new entry
DictSet_new_dict(d, k, v) == << <<k, v>> >>

\* the new entry put before the entries the dict already holds
DictSet_in_front(d, k, v) == << <<k, v>> >> \o d

\* the entry is not stored: the dict stays as it is
DictSet_not_stored(d, k, v) == d

\* d[k] = v on an insertion-ordered dict
DictSet(d, k, v) ==
    IF \E i \in 1..Len(d) : d[i][1] = k
    THEN [i \in 1..Len(d) |-> IF d[i][1] = k THEN <<k, v>> ELSE d[i]]
    ELSE Append(d, <<k, v>>)

RECURSIVE SumOver(_, _)
\* the sum of f[x] over x in S
SumOver(f, S) ==
    IF S = {} THEN 0
    ELSE LET x == CHOOSE y \in S : TRUE IN f[x] + SumOver(f, S \ {x})

RECURSIVE SumSeq(_)
SumSeq(q) == IF q = <<>> THEN 0 ELSE Head(q) + SumSeq(Tail(q))

\* Instance.successors_of
successors_of(tl, task_id) ==
    {key \in DOMAIN tl : task_id \in tl[key].predecessor_set}

RECURSIVE deep_first_search(_, _, _), dfs_loop(_, _, _)
\* Instance.deep_first_search: the start task joins the shared visited set, then
\* the successors not visited at that moment are each searched in turn
deep_first_search(tl, start_task_id, visited_tasks_id) ==
    LET visited == visited_tasks_id \cup {start_task_id}
    IN  dfs_loop(tl, successors_of(tl, start_task_id) \ visited, visited)

dfs_loop(tl, todo, visited) ==
    IF todo = {} THEN visited
    ELSE LET task_id == CHOOSE x \in todo : TRUE
         IN  dfs_loop(tl, todo \ {task_id}, deep_first_search(tl, task_id, visited))

\* task_out_line_completion_cost with the cost added to the field's old value
task_out_line_completion_cost_added(tl, task_id) ==
    (IF tl[task_id].out_completion_cost = None THEN 0
     ELSE tl[task_id].out_completion_cost)
    + SumOver([k \in DOMAIN tl |-> tl[k].out_line_cost],
              deep_first_search(tl, task_id, {}))

RECURSIVE task_out_line_completion_cost_per_path(_, _)
\* the cost summed along the paths instead of over the set of visited tasks: a
\* task reached along two paths is counted twice
task_out_line_completion_cost_per_path(tl, task_id) ==
    tl[task_id].out_line_cost
    + SumOver([k \in DOMAIN tl |-> task_out_line_completion_cost_per_path(tl, k)],
              successors_of(tl, task_id))

\* Instance.task_out_line_completion_cost
task_out_line_completion_cost(tl, task_id) ==
    SumOver([k \in DOMAIN tl |-> tl[k].out_line_cost],
            deep_first_search(tl, task_id, {}))

\* Instance.task_in_line_completion_cost
task_in_line_completion_cost(tl, cc, task_id) == tl[task_id].m * cc

\* Instance.compute_z_limit raises ZeroDivisionError on a zero out_completion_cost
z_limit_raises(task) == task.out_completion_cost = 0

\* Instance.compute_z_limit: norm.ppf(1 - in_line_cost / out_completion_cost)
compute_z_limit(task) ==
    NormPpf(PScale - ((task.in_line_cost * PScale) \div task.out_completion_cost))

RECURSIVE fill_from_unguarded(_, _, _)
\* fill_from with a division that does not raise on a zero out_completion_cost
\* but yields a non-finite quotient, so that z_limit is stored as nan
fill_from_unguarded(tl, cc, i) ==
    IF i > Len(KeySeq(tl)) THEN [task_list |-> tl, raised |-> FALSE]
    ELSE LET key == KeySeq(tl)[i]
             t1  == [tl[key] EXCEPT
                        !.out_completion_cost = task_out_line_completion_cost(tl, key),
                        !.in_line_cost = task_in_line_completion_cost(tl, cc, key)]
             t2  == [t1 EXCEPT
                        !.z_limit = IF z_limit_raises(t1) THEN NaN ELSE compute_z_limit(t1),
                        !.n_successors = Cardinality(successors_of(tl, key))]
         IN  fill_from_unguarded([tl EXCEPT ![key] = t2], cc, i + 1)

RECURSIVE fill_from(_, _, _)
\* Instance.fill_task_properties from the i-th key on: the tasks are filled in
\* dict order and the first exception ends the loop, leaving the later fields
\* of that task and every later task unset
fill_from(tl, cc, i) ==
    IF i > Len(KeySeq(tl)) THEN [task_list |-> tl, raised |-> FALSE]
    ELSE LET key == KeySeq(tl)[i]
             t1  == [tl[key] EXCEPT
                        !.out_completion_cost = task_out_line_completion_cost(tl, key),
                        !.in_line_cost = task_in_line_completion_cost(tl, cc, key)]
         IN  IF z_limit_raises(t1)
             THEN [task_list |-> [tl EXCEPT ![key] = t1], raised |-> TRUE]
             ELSE LET t2 == [t1 EXCEPT
                                !.z_limit = compute_z_limit(t1),
                                !.n_successors = Cardinality(successors_of(tl, key))]
                  IN  fill_from([tl EXCEPT ![key] = t2], cc, i + 1)

fill_task_properties(tl, cc) == fill_from(tl, cc, 1)

\* Instance.assigned_tasks
assigned_tasks(sl) == UNION {StationKeys(sl[i]) : i \in 1..Len(sl)}

\* potential_tasks without the issubset test: only tasks with no predecessor
potential_tasks_roots_only(tl, sl) ==
    LET ass_tasks     == assigned_tasks(sl)
        missing_tasks == (DOMAIN tl) \ ass_tasks
    IN  {task_id \in missing_tasks : Cardinality(tl[task_id].predecessor_set) = 0}

\* potential_tasks without any test of the predecessors
potential_tasks_any_order(tl, sl) == (DOMAIN tl) \ assigned_tasks(sl)

\* Instance.potential_tasks
potential_tasks(tl, sl) ==
    LET ass_tasks     == assigned_tasks(sl)
        missing_tasks == (DOMAIN tl) \ ass_tasks
    IN  {task_id \in missing_tasks :
            \/ Cardinality(tl[task_id].predecessor_set) = 0
            \/ tl[task_id].predecessor_set \subseteq ass_tasks}

\* the entries of a pot_tasks row, [task_id, status, z, out_compl_cost,
\* expected_cost_out_line, n_successors] (x[0]..x[5] in the code)
RowTask(x) == x[1]

RowStatus(x) == x[2]

RowZ(x) == x[3]

RowOutComplCost(x) == x[4]

RowExpectedCost(x) == x[5]

RowNSuccessors(x) == x[6]

\* the sums m_sum and s_sum of compute_status
m_sum_of(tl, station, task_id) ==
    SumSeq([i \in 1..Len(station) |-> tl[station[i][1]].m]) + tl[task_id].m

s_sum_of(tl, station, task_id) ==
    SumSeq([i \in 1..Len(station) |-> tl[station[i][1]].s]) + tl[task_id].s

\* the z threshold of "safe" in thousandths: z > 2.575
SafeZ == 2575

\* Instance.compute_status raises ZeroDivisionError when sqrt(s_sum) is zero
status_raises(tl, station, task_id) == s_sum_of(tl, station, task_id) = 0

\* Instance.compute_status: <<status, z, out_compl_cost, expected_cost_out_line,
\* n_successors>>
compute_status(tl, TT, station, task_id) ==
    LET z == ZOf(TT - m_sum_of(tl, station, task_id), s_sum_of(tl, station, task_id))
        out_compl_cost == tl[task_id].out_completion_cost
        n_successors == tl[task_id].n_successors
        expected_cost_out_line == (PScale - NormCdf(z)) * out_compl_cost
        status == IF z > SafeZ THEN "safe"
                  ELSE IF FloatGt(z, tl[task_id].z_limit) THEN "desirable"
                  ELSE "critical"
    IN  <<status, z, out_compl_cost, expected_cost_out_line, n_successors>>

\* the orders in which iterating over a set can yield its elements
Orders(S) ==
    {q \in [1..Cardinality(S) -> S] : \A i, j \in 1..Cardinality(S) : q[i] = q[j] => i = j}

\* pot_tasks as built by lines 248-251 when potential_tasks() iterates in `order`
build_pot_tasks(tl, TT, station, order) ==
    [i \in 1..Len(order) |-> <<order[i]>> \o compute_status(tl, TT, station, order[i])]

\* list(filter(lambda x: x[1] == status, pot_tasks))
filter_status(rows, status) == SelectSeq(rows, LAMBDA x : RowStatus(x) = status)

RECURSIVE insert_sorted(_, _, _, _)
\* x put into the sorted list after every element it does not come strictly before
insert_sorted(sorted_rows, x, k, reverse) ==
    IF sorted_rows = <<>> THEN <<x>>
    ELSE LET y == Head(sorted_rows)
             before == IF reverse THEN x[k] > y[k] ELSE x[k] < y[k]
         IN  IF before THEN <<x>> \o sorted_rows
             ELSE <<y>> \o insert_sorted(Tail(sorted_rows), x, k, reverse)

RECURSIVE sorted(_, _, _)
\* sorted(rows, key=lambda x: x[k-1], reverse=reverse): a stable sort
sorted(rows, k, reverse) ==
    IF rows = <<>> THEN <<>>
    ELSE insert_sorted(sorted(SubSeq(rows, 1, Len(rows) - 1), k, reverse),
                       rows[Len(rows)], k, reverse)

\* the first row of a sort that is not stable: any row with the extreme key
first_sorted_unstable(rows, k, reverse) ==
    {rows[i] : i \in {j \in 1..Len(rows) :
                        \A h \in 1..Len(rows) :
                            IF reverse THEN rows[j][k] >= rows[h][k]
                            ELSE rows[j][k] <= rows[h][k]}}

\* sorted(rows, key, reverse)[0]: the rows the expression can yield.  sorted is
\* stable, so it is the one row that comes first in the stable order
first_sorted(rows, k, reverse) == {sorted(rows, k, reverse)[1]}

\* select_task without the critical rule: a critical task is never selected
select_task_no_critical(rows, station) ==
    LET safe_tasks      == filter_status(rows, "safe")
        desirable_tasks == filter_status(rows, "desirable")
    IN  IF Len(safe_tasks) > 0 THEN first_sorted(safe_tasks, 4, TRUE)
        ELSE IF Len(desirable_tasks) > 0 THEN first_sorted(desirable_tasks, 4, FALSE)
        ELSE {<<>>}

\* select_task with the safe tasks sorted without reverse=True
select_task_safe_ascending(rows, station) ==
    LET critical_tasks  == filter_status(rows, "critical")
        safe_tasks      == filter_status(rows, "safe")
        desirable_tasks == filter_status(rows, "desirable")
    IN  IF Len(critical_tasks) > 0 /\ Len(station) = 0
        THEN first_sorted(critical_tasks, 6, TRUE)
        ELSE IF Len(safe_tasks) > 0 THEN first_sorted(safe_tasks, 4, FALSE)
        ELSE IF Len(desirable_tasks) > 0 THEN first_sorted(desirable_tasks, 4, FALSE)
        ELSE {<<>>}

\* select_task with the desirable tasks sorted with reverse=True
select_task_desirable_descending(rows, station) ==
    LET critical_tasks  == filter_status(rows, "critical")
        safe_tasks      == filter_status(rows, "safe")
        desirable_tasks == filter_status(rows, "desirable")
    IN  IF Len(critical_tasks) > 0 /\ Len(station) = 0
        THEN first_sorted(critical_tasks, 6, TRUE)
        ELSE IF Len(safe_tasks) > 0 THEN first_sorted(safe_tasks, 4, TRUE)
        ELSE IF Len(desirable_tasks) > 0 THEN first_sorted(desirable_tasks, 4, TRUE)
        ELSE {<<>>}

\* select_task with the critical tasks sorted without reverse=True
select_task_critical_ascending(rows, station) ==
    LET critical_tasks  == filter_status(rows, "critical")
        safe_tasks      == filter_status(rows, "safe")
        desirable_tasks == filter_status(rows, "desirable")
    IN  IF Len(critical_tasks) > 0 /\ Len(station) = 0
        THEN first_sorted(critical_tasks, 6, FALSE)
        ELSE IF Len(safe_tasks) > 0 THEN first_sorted(safe_tasks, 4, TRUE)
        ELSE IF Len(desirable_tasks) > 0 THEN first_sorted(desirable_tasks, 4, FALSE)
        ELSE {<<>>}

\* select_task with the critical rule applied at any station, empty or not
select_task_critical_anywhere(rows, station) ==
    LET critical_tasks  == filter_status(rows, "critical")
        safe_tasks      == filter_status(rows, "safe")
        desirable_tasks == filter_status(rows, "desirable")
    IN  IF Len(critical_tasks) > 0
        THEN first_sorted(critical_tasks, 6, TRUE)
        ELSE IF Len(safe_tasks) > 0 THEN first_sorted(safe_tasks, 4, TRUE)
        ELSE IF Len(desirable_tasks) > 0 THEN first_sorted(desirable_tasks, 4, FALSE)
        ELSE {<<>>}

\* select_task with the critical rule applied at a station that holds a task
\* instead of at an empty one
select_task_critical_if_occupied(rows, station) ==
    LET critical_tasks  == filter_status(rows, "critical")
        safe_tasks      == filter_status(rows, "safe")
        desirable_tasks == filter_status(rows, "desirable")
    IN  IF Len(critical_tasks) > 0 /\ Len(station) # 0
        THEN first_sorted(critical_tasks, 6, TRUE)
        ELSE IF Len(safe_tasks) > 0 THEN first_sorted(safe_tasks, 4, TRUE)
        ELSE IF Len(desirable_tasks) > 0 THEN first_sorted(desirable_tasks, 4, FALSE)
        ELSE {<<>>}

\* lines 255-267: the rows that can become selected_task, <<>> standing for the
\* break of the station loop
select_task(rows, station) ==
    LET critical_tasks  == filter_status(rows, "critical")
        safe_tasks      == filter_status(rows, "safe")
        desirable_tasks == filter_status(rows, "desirable")
    IN  IF Len(critical_tasks) > 0 /\ Len(station) = 0
        THEN first_sorted(critical_tasks, 6, TRUE)
        ELSE IF Len(safe_tasks) > 0 THEN first_sorted(safe_tasks, 4, TRUE)
        ELSE IF Len(desirable_tasks) > 0 THEN first_sorted(desirable_tasks, 4, FALSE)
        ELSE {<<>>}

\* lines 272-274 without line 275, the cost of the stations
final_cost_without_stations(sl, TT, cc, cost) ==
    cost + SumSeq([i \in 1..Len(sl) |-> SumSeq([j \in 1..Len(sl[i]) |-> sl[i][j][2]])])

\* lines 272-275
final_cost(sl, TT, cc, cost) ==
    cost + SumSeq([i \in 1..Len(sl) |-> SumSeq([j \in 1..Len(sl[i]) |-> sl[i][j][2]])])
         + TT * cc * Len(sl) * PScale

(***************************************************************************)
(* Instances: up to Len(IdSeq) tasks, a precedence relation of at most     *)
(* MaxEdges pairs <<predecessor, task>> whose predecessor may be any other *)
(* id of IdSeq (so it may lie on a cycle, or be missing from task_list).   *)
(***************************************************************************)
Graphs(n) ==
    {e \in SUBSET {x \in Ids \X KeysOf(n) : x[1] # x[2]} : Cardinality(e) <= MaxEdges}

Attrs == [m : MValues, s : SValues, out_line_cost : CostValues]

Init ==
    /\ \E n \in 1..Len(IdSeq) : \E a \in [KeysOf(n) -> Attrs] : \E e \in Graphs(n) :
          task_list = [k \in KeysOf(n) |->
                          Task(k, a[k].m, a[k].s, a[k].out_line_cost,
                               {p \in Ids : <<p, k>> \in e})]
    /\ T \in TValues
    /\ c \in CValues
    /\ station_list = <<>>
    /\ total_unit_cost = 0
    /\ n_station = 0
    /\ pot_tasks = <<>>
    /\ selected_task = <<>>
    /\ pc = "new"
    /\ twin = [task_list |-> task_list, station_list |-> <<>>, total_unit_cost |-> 0,
               n_station |-> 0, pc |-> "new"]
    /\ same_orders = TRUE
    /\ n_iter = 0
    /\ n_again = 0
    /\ n_refill = 0
    /\ returned = [station_list |-> <<>>, total_unit_cost |-> 0]
    /\ dfs_start = None
    /\ dfs_stack = <<>>
    /\ dfs_visited = {}

\* Instance.__init__, line 41: fill_task_properties
Construct ==
    /\ pc = "new"
    /\ LET r == fill_task_properties(task_list, c)
       IN  /\ task_list' = r.task_list
           /\ pc' = IF r.raised THEN "raised" ELSE "constructed"
    /\ UNCHANGED <<T, c, station_list, total_unit_cost, n_station, pot_tasks, selected_task>>

\* execute_algorithm is called, line 239
Execute ==
    /\ pc = "constructed"
    /\ n_station' = 0
    /\ pc' = "tasks_loop"
    /\ UNCHANGED <<task_list, T, c, station_list, total_unit_cost, pot_tasks, selected_task>>

\* lines 241-244: a task is available, a new station is opened
OpenStation ==
    /\ pc = "tasks_loop"
    /\ potential_tasks(task_list, station_list) # {}
    /\ n_station' = n_station + 1
    /\ station_list' = IF n_station + 1 <= Len(station_list)
                       THEN [station_list EXCEPT ![n_station + 1] = Station]
                       ELSE Append(station_list, Station)
    /\ pc' = "station_loop"
    /\ UNCHANGED <<task_list, T, c, total_unit_cost, pot_tasks, selected_task>>

\* line 241: no task is available, the tasks loop ends
ExitTasksLoop ==
    /\ pc = "tasks_loop"
    /\ potential_tasks(task_list, station_list) = {}
    /\ pc' = "finalize"
    /\ UNCHANGED <<task_list, T, c, station_list, total_unit_cost, n_station,
                   pot_tasks, selected_task>>

\* lines 249-250: compute_status raises for an available task
StatusRaise ==
    /\ pc = "station_loop"
    /\ \E task_id \in potential_tasks(task_list, station_list) :
          status_raises(task_list, station_list[n_station], task_id)
    /\ pc' = "raised"
    /\ UNCHANGED <<task_list, T, c, station_list, total_unit_cost, n_station,
                   pot_tasks, selected_task>>

\* line 253: no task is available, the station loop breaks
EndStationLoop ==
    /\ pc = "station_loop"
    /\ potential_tasks(task_list, station_list) = {}
    /\ pot_tasks' = <<>>
    /\ pc' = "tasks_loop"
    /\ UNCHANGED <<task_list, T, c, station_list, total_unit_cost, n_station, selected_task>>

\* lines 248-269, one iteration of the station loop over the available tasks,
\* enumerated in `order`: a task is selected and recorded in the current station
AssignTask(order) ==
    /\ pc = "station_loop"
    /\ order \in Orders(potential_tasks(task_list, station_list))
    /\ order # <<>>
    /\ \A i \in 1..Len(order) : ~status_raises(task_list, station_list[n_station], order[i])
    /\ LET rows == build_pot_tasks(task_list, T, station_list[n_station], order)
       IN  \E sel \in select_task(rows, station_list[n_station]) :
              /\ sel # <<>>
              /\ pot_tasks' = rows
              /\ selected_task' = sel
              /\ station_list' = [station_list EXCEPT ![n_station] =
                                     DictSet(@, RowTask(sel), RowExpectedCost(sel))]
    /\ UNCHANGED <<task_list, T, c, total_unit_cost, n_station, pc>>

\* lines 248-267, one iteration in which nothing is selected: break, new station
CloseStation(order) ==
    /\ pc = "station_loop"
    /\ order \in Orders(potential_tasks(task_list, station_list))
    /\ order # <<>>
    /\ \A i \in 1..Len(order) : ~status_raises(task_list, station_list[n_station], order[i])
    /\ LET rows == build_pot_tasks(task_list, T, station_list[n_station], order)
       IN  \E sel \in select_task(rows, station_list[n_station]) :
              /\ sel = <<>>
              /\ pot_tasks' = rows
              /\ selected_task' = sel
    /\ pc' = "tasks_loop"
    /\ UNCHANGED <<task_list, T, c, station_list, total_unit_cost, n_station>>

\* lines 272-275: total_unit_cost, and execute_algorithm returns
Finalize ==
    /\ pc = "finalize"
    /\ total_unit_cost' = final_cost(station_list, T, c, total_unit_cost)
    /\ pc' = "done"
    /\ UNCHANGED <<task_list, T, c, station_list, n_station, pot_tasks, selected_task>>

\* the second run stays where it is
TwinIdle == UNCHANGED <<twin, same_orders>>

\* the step is no iteration of the station loop, or is one (line 246)
NoIteration == n_iter' = n_iter /\ UNCHANGED other_vars

Iteration == n_iter' = n_iter + 1 /\ UNCHANGED other_vars

Next ==
    \/ Construct /\ TwinIdle /\ NoIteration
    \/ Execute /\ TwinIdle /\ n_iter' = 0 /\ UNCHANGED other_vars
    \/ OpenStation /\ TwinIdle /\ NoIteration
    \/ ExitTasksLoop /\ TwinIdle /\ NoIteration
    \/ StatusRaise /\ TwinIdle /\ Iteration
    \/ EndStationLoop /\ TwinIdle /\ Iteration
    \/ \E order \in Orders(potential_tasks(task_list, station_list)) :
          AssignTask(order) /\ TwinIdle /\ Iteration
    \/ \E order \in Orders(potential_tasks(task_list, station_list)) :
          CloseStation(order) /\ TwinIdle /\ Iteration
    \/ Finalize /\ TwinIdle /\ NoIteration

Spec == Init /\ [][Next]_vars

(***************************************************************************)
(* Two runs on the same input, side by side.  The second run is the same   *)
(* program on its own Instance: TwinSteps gives the states one step of it  *)
(* can lead to when it enumerates the available tasks in `order`.          *)
(***************************************************************************)
TwinSteps(r, order) ==
    LET pot == potential_tasks(r.task_list, r.station_list)
    IN  CASE r.pc = "new" ->
               LET f == fill_task_properties(r.task_list, c)
               IN  {[r EXCEPT !.task_list = f.task_list,
                              !.pc = IF f.raised THEN "raised" ELSE "constructed"]}
          [] r.pc = "constructed" ->
               {[r EXCEPT !.n_station = 0, !.pc = "tasks_loop"]}
          [] r.pc = "tasks_loop" ->
               IF pot # {}
               THEN {[r EXCEPT !.n_station = r.n_station + 1,
                               !.station_list =
                                   IF r.n_station + 1 <= Len(r.station_list)
                                   THEN [r.station_list EXCEPT ![r.n_station + 1] = Station]
                                   ELSE Append(r.station_list, Station),
                               !.pc = "station_loop"]}
               ELSE {[r EXCEPT !.pc = "finalize"]}
          [] r.pc = "station_loop" ->
               IF pot = {} THEN {[r EXCEPT !.pc = "tasks_loop"]}
               ELSE IF \E k \in pot : status_raises(r.task_list, r.station_list[r.n_station], k)
               THEN {[r EXCEPT !.pc = "raised"]}
               ELSE LET station == r.station_list[r.n_station]
                        rows == build_pot_tasks(r.task_list, T, station, order)
                    IN  {IF sel = <<>>
                         THEN [r EXCEPT !.pc = "tasks_loop"]
                         ELSE [r EXCEPT !.station_list[r.n_station] =
                                            DictSet(@, RowTask(sel), RowExpectedCost(sel))]
                          : sel \in select_task(rows, station)}
          [] r.pc = "finalize" ->
               {[r EXCEPT !.total_unit_cost =
                              final_cost(r.station_list, T, c, r.total_unit_cost),
                          !.pc = "done"]}
          [] OTHER -> {r}

\* one step of the first run, enumerating in `order` where it enumerates
RunStep(order) ==
    \/ Construct
    \/ Execute
    \/ OpenStation
    \/ ExitTasksLoop
    \/ StatusRaise
    \/ EndStationLoop
    \/ AssignTask(order)
    \/ CloseStation(order)
    \/ Finalize

Terminated(p) == p \in {"done", "raised"}

\* a station-loop pass that enumerates the available tasks
Enumerates(p, tl, sl) == p = "station_loop" /\ potential_tasks(tl, sl) # {}

\* both runs take a step, each with an enumeration order of its own (the
\* iterations are not counted when two runs are followed)
PairStep ==
    \E o1 \in Orders(potential_tasks(task_list, station_list)) :
    \E o2 \in Orders(potential_tasks(twin.task_list, twin.station_list)) :
        /\ RunStep(o1)
        /\ twin' \in TwinSteps(twin, o2)
        /\ same_orders' =
              (same_orders /\
               ((Enumerates(pc, task_list, station_list)
                 \/ Enumerates(twin.pc, twin.task_list, twin.station_list)) => o1 = o2))
        /\ NoIteration

\* the first run has ended, the second goes on
TwinAlone ==
    /\ Terminated(pc)
    /\ ~Terminated(twin.pc)
    /\ \E o2 \in Orders(potential_tasks(twin.task_list, twin.station_list)) :
          /\ twin' \in TwinSteps(twin, o2)
          /\ same_orders' =
                (same_orders /\ ~Enumerates(twin.pc, twin.task_list, twin.station_list))
    /\ UNCHANGED run_vars
    /\ NoIteration

PairNext == PairStep \/ TwinAlone

\* the pairs of runs are followed on the instances with station cost 1
PairInit == Init /\ c = 1

PairSpec == PairInit /\ [][PairNext]_vars

(***************************************************************************)
(* Vocabulary of the properties.                                           *)
(***************************************************************************)
\* every predecessor id is a key of task_list
PredsPresent == \A k \in DOMAIN task_list : task_list[k].predecessor_set \subseteq DOMAIN task_list

RECURSIVE DescendantsOf(_)
\* the tasks reachable from the set S along one or more precedence edges
DescendantsOf(S) ==
    LET next == S \cup {k \in DOMAIN task_list : task_list[k].predecessor_set \cap S # {}}
    IN  IF next = S THEN S ELSE DescendantsOf(next)

ProperDescendants(k) ==
    DescendantsOf({j \in DOMAIN task_list : k \in task_list[j].predecessor_set})

\* the precedence relation has no cycle
Acyclic == \A k \in DOMAIN task_list : k \notin ProperDescendants(k)

WellFormed == Acyclic /\ PredsPresent

\* the stations (by numeric id) whose out_line_cost map holds task k
StationsOf(k) == {i \in 1..Len(station_list) : k \in StationKeys(station_list[i])}

\* the state right after an iteration of the station loop that selected a task
JustAssigned == pc = "station_loop" /\ pot_tasks # <<>> /\ selected_task # <<>>

\* the state right after the iteration that broke out to open a new station
JustClosed == pc = "tasks_loop" /\ pot_tasks # <<>> /\ selected_task = <<>>

RowsOf(status) == {pot_tasks[i] : i \in {j \in 1..Len(pot_tasks) : RowStatus(pot_tasks[j]) = status}}

\* the selection was made at an empty station with a critical task available
CriticalAtEmpty == Len(station_list[n_station]) = 1 /\ RowsOf("critical") # {}

(***************************************************************************)
(* C1: when execute_algorithm returns on an instance whose precedence      *)
(* relation is acyclic and names only tasks of task_list, every task is    *)
(* in the out_line_cost map of exactly one station, once, and the union    *)
(* of the stations' task ids is the key set of task_list.                  *)
(***************************************************************************)
C1_Coverage ==
    (pc = "done" /\ WellFormed) =>
        /\ \A k \in DOMAIN task_list : Cardinality(StationsOf(k)) = 1
        /\ \A i \in 1..Len(station_list) :
              Cardinality(StationKeys(station_list[i])) = Len(station_list[i])
        /\ assigned_tasks(station_list) = DOMAIN task_list

C1_Witness ==
    /\ pc = "done" /\ WellFormed
    /\ Cardinality(DOMAIN task_list) = 3
    /\ Len(station_list) = 2
    /\ \E k \in DOMAIN task_list : task_list[k].predecessor_set # {}

(***************************************************************************)
(* C2: in every state of a run, every predecessor of an assigned task is   *)
(* assigned to a station whose numeric id is at most that of the task's    *)
(* station.                                                                *)
(***************************************************************************)
C2_PrecedenceRespected ==
    \A i \in 1..Len(station_list) : \A t \in StationKeys(station_list[i]) :
        \A p \in task_list[t].predecessor_set :
            \E j \in 1..i : p \in StationKeys(station_list[j])

C2_Witness ==
    \E i \in 1..Len(station_list) : \E t \in StationKeys(station_list[i]) :
        \E p \in task_list[t].predecessor_set :
            /\ p \notin StationKeys(station_list[i])
            /\ \E j \in 1..(i - 1) : p \in StationKeys(station_list[j])

(***************************************************************************)
(* C3: execute_algorithm terminates: both the station loop and the tasks   *)
(* loop exit.  Every step of a run strictly decreases the measure Rank,    *)
(* which stays between 0 and 4 * (number of tasks) + 6: four per          *)
(* unassigned task, plus the position within the loops (a station loop at  *)
(* an empty station ranks below the tasks loop that opened it, because     *)
(* its next iteration must assign a task).  So no run has more than        *)
(* 4 * (number of tasks) + 6 steps.                                        *)
(***************************************************************************)
Unassigned == Cardinality((DOMAIN task_list) \ assigned_tasks(station_list))

Rank ==
    CASE pc = "new"          -> 4 * Cardinality(DOMAIN task_list) + 6
      [] pc = "constructed"  -> 4 * Cardinality(DOMAIN task_list) + 5
      [] pc = "tasks_loop"   -> 4 * Unassigned + 2
      [] pc = "station_loop" -> IF Len(station_list[n_station]) = 0
                                THEN 4 * Unassigned + 1
                                ELSE 4 * Unassigned + 3
      [] pc = "finalize"     -> 1
      [] OTHER               -> 0

C3_Terminates == [][Rank' < Rank /\ Rank' >= 0]_vars

C3_Witness ==
    /\ pc = "done" /\ WellFormed
    /\ Cardinality(DOMAIN task_list) = 3
    /\ Len(station_list) >= 2

(***************************************************************************)
(* C4 as stated: when the critical-at-empty-station rule does not apply    *)
(* and a safe task is available, the selected task is a safe task with     *)
(* the highest expected_cost_out_line among the safe tasks.                *)
(***************************************************************************)
C4_Original ==
    (JustAssigned /\ ~CriticalAtEmpty /\ RowsOf("safe") # {}) =>
        /\ RowStatus(selected_task) = "safe"
        /\ \A r \in RowsOf("safe") : RowExpectedCost(selected_task) >= RowExpectedCost(r)

(***************************************************************************)
(* C4 amended: when the critical-at-empty-station rule does not apply and  *)
(* a safe task is available, the selected task is a safe task with the     *)
(* highest out_completion_cost among the safe tasks, and it is the one     *)
(* recorded last in the current station.                                   *)
(***************************************************************************)
C4_SafeMaxOutComplCost ==
    (JustAssigned /\ ~CriticalAtEmpty /\ RowsOf("safe") # {}) =>
        /\ RowStatus(selected_task) = "safe"
        /\ selected_task \in RowsOf("safe")
        /\ \A r \in RowsOf("safe") : RowOutComplCost(selected_task) >= RowOutComplCost(r)
        /\ station_list[n_station][Len(station_list[n_station])] =
              <<RowTask(selected_task), RowExpectedCost(selected_task)>>

C4_Witness ==
    /\ JustAssigned /\ ~CriticalAtEmpty
    /\ RowStatus(selected_task) = "safe"
    /\ \E r \in RowsOf("safe") :
          /\ RowOutComplCost(r) < RowOutComplCost(selected_task)
          /\ RowExpectedCost(r) > RowExpectedCost(selected_task)

(***************************************************************************)
(* C5 as stated: when the critical-at-empty-station rule does not apply,   *)
(* no available task is safe and one is desirable, the selected task is a  *)
(* desirable task with the lowest expected_cost_out_line among the         *)
(* desirable tasks.                                                        *)
(***************************************************************************)
C5_Original ==
    (JustAssigned /\ ~CriticalAtEmpty /\ RowsOf("safe") = {} /\ RowsOf("desirable") # {}) =>
        /\ RowStatus(selected_task) = "desirable"
        /\ \A r \in RowsOf("desirable") :
              RowExpectedCost(selected_task) <= RowExpectedCost(r)

(***************************************************************************)
(* C5 amended: in that case the selected task is a desirable task with     *)
(* the lowest out_completion_cost among the desirable tasks, and it is     *)
(* the one recorded last in the current station.                           *)
(***************************************************************************)
C5_DesirableMinOutComplCost ==
    (JustAssigned /\ ~CriticalAtEmpty /\ RowsOf("safe") = {} /\ RowsOf("desirable") # {}) =>
        /\ RowStatus(selected_task) = "desirable"
        /\ selected_task \in RowsOf("desirable")
        /\ \A r \in RowsOf("desirable") :
              RowOutComplCost(selected_task) <= RowOutComplCost(r)
        /\ station_list[n_station][Len(station_list[n_station])] =
              <<RowTask(selected_task), RowExpectedCost(selected_task)>>

C5_Witness ==
    /\ JustAssigned /\ ~CriticalAtEmpty /\ RowsOf("safe") = {}
    /\ RowStatus(selected_task) = "desirable"
    /\ \E r \in RowsOf("desirable") : RowExpectedCost(r) < RowExpectedCost(selected_task)

(***************************************************************************)
(* C6: when the current station holds no task and a critical task is       *)
(* available, the selected task is a critical task with the highest        *)
(* n_successors (number of direct successors) among the critical tasks,    *)
(* whether or not safe or desirable tasks are available too.               *)
(***************************************************************************)
C6_CriticalMaxSuccessors ==
    (JustAssigned /\ CriticalAtEmpty) =>
        /\ RowStatus(selected_task) = "critical"
        /\ selected_task \in RowsOf("critical")
        /\ RowNSuccessors(selected_task) =
              Cardinality(successors_of(task_list, RowTask(selected_task)))
        /\ \A r \in RowsOf("critical") :
              RowNSuccessors(selected_task) >= RowNSuccessors(r)
        /\ station_list[n_station] =
              << <<RowTask(selected_task), RowExpectedCost(selected_task)>> >>

C6_Witness ==
    /\ JustAssigned /\ CriticalAtEmpty
    /\ RowsOf("safe") \cup RowsOf("desirable") # {}
    /\ Cardinality(RowsOf("critical")) >= 2

(***************************************************************************)
(* C7: the station loop breaks to open a new station only when the         *)
(* current station holds a task and every available task is critical       *)
(* against it; and a task selected as critical is the first task of its    *)
(* station.                                                                *)
(***************************************************************************)
C7_CloseOnlyWhenAllCritical ==
    /\ JustClosed =>
          /\ Len(station_list[n_station]) > 0
          /\ \A i \in 1..Len(pot_tasks) : RowStatus(pot_tasks[i]) = "critical"
          /\ {RowTask(pot_tasks[i]) : i \in 1..Len(pot_tasks)} =
                potential_tasks(task_list, station_list)
    /\ (JustAssigned /\ RowStatus(selected_task) = "critical") =>
          Len(station_list[n_station]) = 1

C7_Witness ==
    /\ JustClosed
    /\ Len(pot_tasks) >= 2

(***************************************************************************)
(* C8: after one run of execute_algorithm on a freshly constructed         *)
(* instance, total_unit_cost is the sum over the stations of the recorded  *)
(* expected out-of-line costs plus T * c * (number of stations).           *)
(***************************************************************************)
RecordedCosts(i) ==
    SumOver([k \in StationKeys(station_list[i]) |->
                (CHOOSE e \in {station_list[i][j] : j \in 1..Len(station_list[i])} :
                    e[1] = k)[2]],
            StationKeys(station_list[i]))

C8_TotalUnitCost ==
    pc = "done" =>
        total_unit_cost =
            SumOver([i \in 1..Len(station_list) |-> RecordedCosts(i)], 1..Len(station_list))
            + T * c * Len(station_list) * PScale

C8_Witness ==
    /\ pc = "done"
    /\ Len(station_list) >= 2
    /\ \E i, j \in 1..Len(station_list) :
          i # j /\ RecordedCosts(i) > 0 /\ RecordedCosts(j) > 0

(***************************************************************************)
(* C9 as stated: on an instance whose precedence relation has a cycle or   *)
(* names a predecessor that is no key of task_list, execute_algorithm      *)
(* never returns normally.                                                 *)
(***************************************************************************)
C9_MalformedNeverReturns == ~WellFormed => pc # "done"

C10_OrdersMatter ==
    /\ ~same_orders
    /\ pc = "done" /\ twin.pc = "done"
    /\ twin.station_list # station_list

(***************************************************************************)
(* The scenario of three tasks in a chain: A, then B, then C, each with    *)
(* m = 1, s = 0 and out_line_cost = 5, and q = 1 (T = 1), c = 1.           *)
(***************************************************************************)
IsChainABC ==
    /\ DOMAIN task_list = {"A", "B", "C"}
    /\ task_list["A"].predecessor_set = {}
    /\ task_list["B"].predecessor_set = {"A"}
    /\ task_list["C"].predecessor_set = {"B"}
    /\ \A k \in DOMAIN task_list :
          task_list[k].m = 1 /\ task_list[k].s = 0 /\ task_list[k].out_line_cost = 5
    /\ T = 1
    /\ c = 1

(***************************************************************************)
(* C11 as stated: the run on the chain scenario ends, and it ends          *)
(* returned with exactly three stations, station "1" holding A, station    *)
(* "2" holding B and station "3" holding C.                                *)
(***************************************************************************)
C11_ChainThreeStations ==
    (IsChainABC /\ Terminated(pc)) =>
        /\ pc = "done"
        /\ Len(station_list) = 3
        /\ StationKeys(station_list[1]) = {"A"}
        /\ StationKeys(station_list[2]) = {"B"}
        /\ StationKeys(station_list[3]) = {"C"}

\* what the run on the chain scenario does: it ends in the first iteration of
\* the station loop, with an exception, station "1" open and empty
C11_ChainRaises ==
    (IsChainABC /\ Terminated(pc)) =>
        pc = "raised" /\ station_list = <<Station>> /\ n_iter = 1

(***************************************************************************)
(* Calls made again on the same Instance.  fill_task_properties and        *)
(* execute_algorithm are public methods: either can be called on an        *)
(* Instance that was constructed, or that a run has already balanced.      *)
(***************************************************************************)
\* fill_task_properties is called again (lines 161-169)
Refill ==
    /\ pc \in {"constructed", "done"}
    /\ n_refill < MaxRefills
    /\ LET r == fill_task_properties(task_list, c)
       IN  /\ task_list' = r.task_list
           /\ pc' = IF r.raised THEN "raised" ELSE pc
    /\ n_refill' = n_refill + 1
    /\ UNCHANGED <<T, c, station_list, total_unit_cost, n_station, pot_tasks, selected_task>>
    /\ UNCHANGED <<twin, same_orders, n_iter, n_again, returned,
                   dfs_start, dfs_stack, dfs_visited>>

\* execute_algorithm is called again after it has returned (line 239): the
\* locals are new, the fields of the Instance are as the last call left them
ExecuteAgain ==
    /\ pc = "done"
    /\ n_again < MaxAgain
    /\ n_station' = 0
    /\ pot_tasks' = <<>>
    /\ selected_task' = <<>>
    /\ pc' = "tasks_loop"
    /\ n_iter' = 0
    /\ n_again' = n_again + 1
    /\ returned' = [station_list |-> station_list, total_unit_cost |-> total_unit_cost]
    /\ UNCHANGED <<task_list, T, c, station_list, total_unit_cost>>
    /\ UNCHANGED <<twin, same_orders, n_refill, dfs_start, dfs_stack, dfs_visited>>

AgainNext == Next \/ Refill \/ ExecuteAgain

\* the instances with cycle time 5
AgainInit == Init /\ T = 5

AgainSpec == AgainInit /\ [][AgainNext]_vars

(***************************************************************************)
(* C12: a call of fill_task_properties made after the one of __init__      *)
(* leaves out_completion_cost, in_line_cost, z_limit and n_successors of   *)
(* every task as the first call set them (and every other field of the     *)
(* tasks, and the position of the run, as they were).                      *)
(***************************************************************************)
C12_RefillKeepsFields ==
    [][n_refill' # n_refill =>
          /\ DOMAIN task_list' = DOMAIN task_list
          /\ \A k \in DOMAIN task_list :
                /\ task_list'[k].out_completion_cost = task_list[k].out_completion_cost
                /\ task_list'[k].in_line_cost = task_list[k].in_line_cost
                /\ task_list'[k].z_limit = task_list[k].z_limit
                /\ task_list'[k].n_successors = task_list[k].n_successors
          /\ task_list' = task_list
          /\ pc' = pc]_vars

\* a second call has been made on an instance with a task that has successors,
\* a finite z_limit, and another task whose z_limit is not finite
C12_Witness ==
    /\ n_refill = 1
    /\ \E k \in DOMAIN task_list :
          /\ task_list[k].n_successors > 0
          /\ task_list[k].out_completion_cost > task_list[k].out_line_cost
          /\ task_list[k].z_limit \notin {NaN, PosInf, NegInf, None}
    /\ \E k \in DOMAIN task_list : task_list[k].z_limit \in {NaN, NegInf}

(***************************************************************************)
(* C13: stations are append-only.  In every step of a run each station     *)
(* keeps the entries it holds, task and recorded cost, in their order      *)
(* (its new content extends the old one); no station disappears and a      *)
(* station that appears is empty; at most one entry is added in the step,  *)
(* and only to the station opened last; and no task is ever held by two    *)
(* stations, or twice by one.                                              *)
(***************************************************************************)
C13_AppendOnly ==
    [][/\ Len(station_list') >= Len(station_list)
       /\ \A i \in 1..Len(station_list) :
             /\ Len(station_list'[i]) >= Len(station_list[i])
             /\ SubSeq(station_list'[i], 1, Len(station_list[i])) = station_list[i]
             /\ station_list'[i] # station_list[i] =>
                   /\ Len(station_list'[i]) = Len(station_list[i]) + 1
                   /\ i = Len(station_list')
                   /\ i = n_station'
       /\ \A i \in (Len(station_list) + 1)..Len(station_list') : station_list'[i] = <<>>
       /\ \A i, j \in 1..Len(station_list') :
             \A a \in 1..Len(station_list'[i]) : \A b \in 1..Len(station_list'[j]) :
                 station_list'[i][a][1] = station_list'[j][b][1] => (i = j /\ a = b)
      ]_vars

\* a second station has received a task while the first holds two
C13_Witness ==
    /\ Len(station_list) >= 2
    /\ Len(station_list[1]) >= 2
    /\ Len(station_list[2]) >= 1
    /\ JustAssigned

(***************************************************************************)
(* C14: the tasks whose own out_line_cost and that of all their            *)
(* transitive successors are zero.  On an instance with such a task the    *)
(* run is either not yet constructed or has ended with the exception       *)
(* raised by fill_task_properties: no station is created, the station      *)
(* loop is never entered, and the z_limit of such a task is never stored   *)
(* as nan or an infinity (it stays unset).                                 *)
(***************************************************************************)
ZeroCostTasks ==
    {k \in DOMAIN task_list :
        \A j \in DescendantsOf({k}) \cap DOMAIN task_list : task_list[j].out_line_cost = 0}

C14_ZeroCostRaisesAtConstruction ==
    ZeroCostTasks # {} =>
        /\ pc \in {"new", "raised"}
        /\ station_list = <<>>
        /\ n_station = 0
        /\ n_iter = 0
        /\ total_unit_cost = 0
        /\ \A k \in ZeroCostTasks : task_list[k].z_limit \notin {NaN, PosInf, NegInf}

\* construction has raised on the third task, after it had filled the first two
C14_Witness ==
    /\ pc = "raised"
    /\ ZeroCostTasks = {"C"}
    /\ task_list["A"].z_limit # None
    /\ task_list["B"].z_limit # None
    /\ task_list["C"].out_completion_cost = 0
    /\ task_list["C"].z_limit = None

(***************************************************************************)
(* deep_first_search frame by frame.  task_out_line_completion_cost calls  *)
(* deep_first_search(task_id) with a new visited set (line 123); each call *)
(* adds its task to the shared set (line 82), takes the successors not in  *)
(* the set at that moment (line 84) and calls itself on each of them in    *)
(* the order the set yields them (line 85), whether or not an earlier      *)
(* call of the loop has visited the task meanwhile.                        *)
(* The graphs have up to four tasks, so that a task can be reached along   *)
(* two disjoint paths, and out_line_cost 1, 2, 4, 8, so that a sum of      *)
(* costs tells which tasks were counted and how often.                     *)
(***************************************************************************)
DfsIdSeq == <<"A", "B", "C", "D">>

DfsCosts == [A |-> 1, B |-> 2, C |-> 4, D |-> 8]

DfsKeysOf(n) == {DfsIdSeq[i] : i \in 1..n}

DfsGraphs(n) ==
    {e \in SUBSET {x \in DfsKeysOf(n) \X DfsKeysOf(n) : x[1] # x[2]} :
        Cardinality(e) <= DfsMaxEdges}

DfsInit ==
    /\ \E n \in 1..Len(DfsIdSeq) : \E e \in DfsGraphs(n) :
          /\ task_list = [k \in DfsKeysOf(n) |->
                             Task(k, 1, 1, DfsCosts[k], {p \in DfsKeysOf(n) : <<p, k>> \in e})]
          /\ dfs_start \in DfsKeysOf(n)
    /\ T = 1
    /\ c = 1
    /\ station_list = <<>>
    /\ total_unit_cost = 0
    /\ n_station = 0
    /\ pot_tasks = <<>>
    /\ selected_task = <<>>
    /\ pc = "new"
    /\ twin = [task_list |-> task_list, station_list |-> <<>>, total_unit_cost |-> 0,
               n_station |-> 0, pc |-> "new"]
    /\ same_orders = TRUE
    /\ n_iter = 0
    /\ n_again = 0
    /\ n_refill = 0
    /\ returned = [station_list |-> <<>>, total_unit_cost |-> 0]
    /\ dfs_stack = <<>>
    /\ dfs_visited = {}

\* line 84 with every successor, visited or not
unvisited_successors_all(tl, task_id, visited) == successors_of(tl, task_id)

\* line 84: self.successors_of(start_task_id).difference(visited_tasks_id)
unvisited_successors(tl, task_id, visited) == successors_of(tl, task_id) \ visited

\* a frame of the recursion: its task and what its for loop has yet to yield
Frame(task_id, visited) ==
    [task |-> task_id, todo |-> unvisited_successors(task_list, task_id, visited)]

dfs_rest == <<task_list, T, c, station_list, total_unit_cost, n_station, pot_tasks,
              selected_task, pc, twin, same_orders, n_iter, n_again, n_refill, returned,
              dfs_start>>

\* line 123: deep_first_search(task_id), lines 79-84 of the outermost call
DfsCall ==
    /\ dfs_stack = <<>>
    /\ dfs_visited = {}
    /\ dfs_visited' = {dfs_start}
    /\ dfs_stack' = <<Frame(dfs_start, {dfs_start})>>
    /\ UNCHANGED dfs_rest

\* line 85: the for loop of the innermost call yields a task and the search is
\* called on it (lines 82-84 of the new call)
DfsRecurse ==
    /\ dfs_stack # <<>>
    /\ Len(dfs_stack) < MaxDepth
    /\ \E task_id \in dfs_stack[Len(dfs_stack)].todo :
          LET visited == dfs_visited \cup {task_id}
          IN  /\ dfs_visited' = visited
              /\ dfs_stack' =
                    Append([dfs_stack EXCEPT ![Len(dfs_stack)].todo = @ \ {task_id}],
                           Frame(task_id, visited))
    /\ UNCHANGED dfs_rest

\* line 87: the for loop of the innermost call is exhausted, the call returns
DfsReturn ==
    /\ dfs_stack # <<>>
    /\ dfs_stack[Len(dfs_stack)].todo = {}
    /\ dfs_stack' = SubSeq(dfs_stack, 1, Len(dfs_stack) - 1)
    /\ UNCHANGED dfs_visited
    /\ UNCHANGED dfs_rest

DfsNext == DfsCall \/ DfsRecurse \/ DfsReturn

DfsSpec == DfsInit /\ [][DfsNext]_vars

\* the outermost call has returned; its value is dfs_visited
DfsReturned == dfs_stack = <<>> /\ dfs_visited # {}

\* the tasks reachable from k along successor edges, k included
ReachableFrom(k) == DescendantsOf({k})

OutLineCosts == [k \in DOMAIN task_list |-> task_list[k].out_line_cost]

(***************************************************************************)
(* C15: on an acyclic precedence graph the search called on a task         *)
(* returns exactly the tasks reachable from it along successor edges, the  *)
(* task itself included, in whatever order the sets yield their elements;  *)
(* and task_out_line_completion_cost of the task is the sum of             *)
(* out_line_cost over that set, each task counted once, also when a task   *)
(* is reachable along several paths.                                       *)
(***************************************************************************)
C15_SearchReturnsReachable ==
    (Acyclic /\ DfsReturned) =>
        /\ dfs_visited = ReachableFrom(dfs_start)
        /\ deep_first_search(task_list, dfs_start, {}) = ReachableFrom(dfs_start)
        /\ task_out_line_completion_cost(task_list, dfs_start) =
              SumOver(OutLineCosts, ReachableFrom(dfs_start))

\* the search has returned on a diamond: D is reached from A through B and
\* through C, and on no other way
C15_Witness ==
    /\ Acyclic /\ DfsReturned
    /\ dfs_start = "A"
    /\ successors_of(task_list, "A") = {"B", "C"}
    /\ successors_of(task_list, "B") = {"D"}
    /\ successors_of(task_list, "C") = {"D"}
    /\ dfs_visited = {"A", "B", "C", "D"}

(***************************************************************************)
(* C20: the search terminates on every graph, cycles included, and         *)
(* returns the tasks reachable from the start task, itself included.  The  *)
(* tasks of the frames on the recursion stack are pairwise distinct, so    *)
(* the depth of recursion is at most the number of tasks; every step       *)
(* strictly decreases the measure DfsRank, which is never negative, so     *)
(* the number of steps is bounded.                                         *)
(***************************************************************************)
DfsRank ==
    LET n == Cardinality(DOMAIN task_list)
    IN  (2 * n + 1) * (n - Cardinality(dfs_visited))
        + 2 * SumSeq([i \in 1..Len(dfs_stack) |-> Cardinality(dfs_stack[i].todo)])
        + Len(dfs_stack)
        + (IF dfs_visited = {} THEN 1 ELSE 0)

StackDistinct ==
    \A i, j \in 1..Len(dfs_stack) : dfs_stack[i].task = dfs_stack[j].task => i = j

C20_SearchTerminates ==
    /\ [](/\ StackDistinct
          /\ Len(dfs_stack) <= Cardinality(DOMAIN task_list)
          /\ dfs_visited \subseteq ReachableFrom(dfs_start)
          /\ DfsReturned => dfs_visited = ReachableFrom(dfs_start))
    /\ [][DfsRank' < DfsRank /\ DfsRank' >= 0]_vars

\* the search has returned on a graph whose four tasks lie on one cycle
C20_Witness ==
    /\ DfsReturned
    /\ \A k \in DOMAIN task_list : k \in ProperDescendants(k)
    /\ dfs_visited = {"A", "B", "C", "D"}

\* the for loop of a call can yield a task that an earlier call of the same loop
\* has visited meanwhile: the search is then called on a visited task
DfsRevisits ==
    /\ dfs_stack # <<>>
    /\ \E task_id \in dfs_stack[Len(dfs_stack)].todo : task_id \in dfs_visited

(***************************************************************************)
(* C16 as stated: on an instance whose precedence relation is acyclic and  *)
(* names only tasks of task_list, with n tasks, a run of                   *)
(* execute_algorithm makes at most n * n iterations of the station loop,   *)
(* the iterations that end with a break counted.                           *)
(***************************************************************************)
C16_Original ==
    WellFormed => n_iter <= Cardinality(DOMAIN task_list) * Cardinality(DOMAIN task_list)

(***************************************************************************)
(* C16 amended: on such an instance a run makes at most 2 * n iterations   *)
(* of the station loop; a run that returns has made exactly n plus the     *)
(* number of stations: one per task assigned, one per station closed for   *)
(* a new one, and the last one, which finds no task left and breaks.  So   *)
(* the bound n * n holds from two tasks on, and not for one task.          *)
(***************************************************************************)
C16_IterationsBound ==
    WellFormed =>
        LET n == Cardinality(DOMAIN task_list)
        IN  /\ n_iter <= 2 * n
            /\ n_iter <= Cardinality(assigned_tasks(station_list)) + Len(station_list)
            /\ pc = "done" => n_iter = n + Len(station_list)
            /\ n >= 2 => n_iter <= n * n

\* a run on three tasks has returned with three stations, after six iterations
C16_Witness ==
    /\ WellFormed
    /\ pc = "done"
    /\ Cardinality(DOMAIN task_list) = 3
    /\ Len(station_list) = 3
    /\ n_iter = 6

(***************************************************************************)
(* C17: on an instance whose precedence relation is acyclic and names      *)
(* only tasks of task_list, no station is left empty.  Every station but   *)
(* the one opened last holds a task; so does the last one whenever the     *)
(* run is in the tasks loop, about to open a station or to leave the       *)
(* loop, and when execute_algorithm has returned; and then there are no    *)
(* more stations than tasks.                                               *)
(***************************************************************************)
C17_NoEmptyStation ==
    WellFormed =>
        /\ \A i \in 1..(Len(station_list) - 1) : Len(station_list[i]) > 0
        /\ pc \in {"tasks_loop", "finalize", "done"} =>
              \A i \in 1..Len(station_list) : Len(station_list[i]) > 0
        /\ pc \in {"finalize", "done"} =>
              Len(station_list) <= Cardinality(DOMAIN task_list)

\* a second station has just been opened, the first holds two tasks
C17_Witness ==
    /\ WellFormed
    /\ pc = "station_loop"
    /\ Len(station_list) = 2
    /\ Len(station_list[1]) = 2
    /\ station_list[2] = Station

\* Encoder.default on a Station: 'task_list': list(obj.out_line_cost.keys())
encode_station(station) == [i \in 1..Len(station) |-> station[i][1]]

(***************************************************************************)
(* C18: within a station the insertion order respects precedence.  If a    *)
(* task and one of its predecessors are in the same station, the           *)
(* predecessor was inserted first, so the task list the encoder writes     *)
(* for the station lists the predecessor before the task.                  *)
(***************************************************************************)
C18_PredecessorListedFirst ==
    \A i \in 1..Len(station_list) :
        LET listed == encode_station(station_list[i])
        IN  \A a, b \in 1..Len(listed) :
                listed[a] \in task_list[listed[b]].predecessor_set => a < b

\* a run has returned with a chain of three tasks in one station
C18_Witness ==
    /\ pc = "done"
    /\ \E i \in 1..Len(station_list) :
          LET listed == encode_station(station_list[i])
          IN  /\ Len(listed) = 3
              /\ listed[1] \in task_list[listed[2]].predecessor_set
              /\ listed[2] \in task_list[listed[3]].predecessor_set

(***************************************************************************)
(* C19 as stated: a second call of execute_algorithm on a balanced         *)
(* instance opens no station, changes no station's out_line_cost map and   *)
(* leaves total_unit_cost at its value after the first call.               *)
(***************************************************************************)
C19_SecondCallChangesNothing ==
    (n_again >= 1 /\ pc = "done") =>
        /\ Len(station_list) = Len(returned.station_list)
        /\ station_list = returned.station_list
        /\ total_unit_cost = returned.total_unit_cost

\* what the second call does: it enters neither loop and leaves the stations as
\* they are, and lines 272-275 add the cost of the stations to total_unit_cost
\* once more
C19_SecondCallAddsCostAgain ==
    (n_again = 1 /\ pc = "done") =>
        /\ station_list = returned.station_list
        /\ n_station = 0
        /\ n_iter = 0
        /\ total_unit_cost = 2 * returned.total_unit_cost

=============================================================================
